---- MODULE Spec2Model ----
(***************************************************************************)
(* Model of highway_chainage_analysis.py: the VG grade classifier          *)
(* (determine_vg_grade), the grade colorizer (get_vg_grade_color), the     *)
(* augmentation of the segments table in visualize_highway_chainage and    *)
(* the path check of main.                                                 *)
(*                                                                         *)
(* Temperatures are Python floats.  A finite float is modelled in fixed    *)
(* point, as an integer number of 1/Scale degrees; NaN and the two         *)
(* infinities, which pandas.read_csv can produce, are separate kinds.      *)
(***************************************************************************)
EXTENDS Integers, Sequences, FiniteSets

VARIABLES call, mean_temp, vg_grade, ret,
          folder_path, sidebar, viz, reads, selected_highway,
          segments_df

fnvars == <<call, mean_temp, vg_grade, ret>>
appvars == <<folder_path, sidebar, viz, reads, selected_highway, segments_df>>
vars == <<call, mean_temp, vg_grade, ret,
          folder_path, sidebar, viz, reads, selected_highway, segments_df>>

----------------------------------------------------------------------------
(* Bounds of the model *)

\* resolution of a finite temperature: units per degree Celsius
Scale == 1000
\* finite temperatures range over -MaxDeg .. MaxDeg degrees
MaxDeg == 50
\* largest number of rows of a segments table
MaxRows == 2

----------------------------------------------------------------------------
(* Float values *)

Real(m) == [kind |-> "real", milli |-> m]
NaN == [kind |-> "nan", milli |-> 0]
PosInf == [kind |-> "inf", milli |-> 0]
NegInf == [kind |-> "-inf", milli |-> 0]
IsReal(x) == x.kind = "real"

\* x < n and x > n of Python floats, n a whole number of degrees:
\* every comparison with NaN is False
FloatLt(x, n) ==
    CASE x.kind = "real" -> x.milli < n * Scale
      [] x.kind = "-inf" -> TRUE
      [] OTHER -> FALSE

FloatGt(x, n) ==
    CASE x.kind = "real" -> x.milli > n * Scale
      [] x.kind = "inf" -> TRUE
      [] OTHER -> FALSE

----------------------------------------------------------------------------
(* determine_vg_grade *)

T_VG10 == 30
T_VG20 == 38
T_VG30 == 45

Grades == {"VG-10", "VG-20", "VG-30", "VG-40", "VG-50"}

\* mutant: the last two returns exchanged
determine_vg_grade_swapped(t) ==
    IF FloatLt(t, T_VG10) THEN "VG-10"
    ELSE IF FloatLt(t, T_VG20) THEN "VG-20"
    ELSE IF FloatLt(t, T_VG30) THEN "VG-30"
    ELSE IF FloatGt(t, T_VG30) THEN "VG-50"
    ELSE "VG-40"

\* mutant: the boundary 45 closed into the VG-40 branch (>= 45)
determine_vg_grade_closed(t) ==
    IF FloatLt(t, T_VG10) THEN "VG-10"
    ELSE IF FloatLt(t, T_VG20) THEN "VG-20"
    ELSE IF FloatLt(t, T_VG30) THEN "VG-30"
    ELSE IF FloatGt(t, T_VG30) \/ t = Real(T_VG30 * Scale) THEN "VG-40"
    ELSE "VG-50"

\* mutant: second comparison <= 38 instead of < 38
determine_vg_grade_le38(t) ==
    IF FloatLt(t, T_VG10) THEN "VG-10"
    ELSE IF FloatLt(t, T_VG20) \/ t = Real(T_VG20 * Scale) THEN "VG-20"
    ELSE IF FloatLt(t, T_VG30) THEN "VG-30"
    ELSE IF FloatGt(t, T_VG30) THEN "VG-40"
    ELSE "VG-50"

\* mutant: first comparison <= 30 instead of < 30
determine_vg_grade_le30(t) ==
    IF FloatLt(t, T_VG10) \/ t = Real(T_VG10 * Scale) THEN "VG-10"
    ELSE IF FloatLt(t, T_VG20) THEN "VG-20"
    ELSE IF FloatLt(t, T_VG30) THEN "VG-30"
    ELSE IF FloatGt(t, T_VG30) THEN "VG-40"
    ELSE "VG-50"

\* mutant: the first two branches tested in the wrong order
determine_vg_grade_reordered(t) ==
    IF FloatLt(t, T_VG20) THEN "VG-20"
    ELSE IF FloatLt(t, T_VG10) THEN "VG-10"
    ELSE IF FloatLt(t, T_VG30) THEN "VG-30"
    ELSE IF FloatGt(t, T_VG30) THEN "VG-40"
    ELSE "VG-50"

determine_vg_grade(t) ==
    IF FloatLt(t, T_VG10) THEN "VG-10"
    ELSE IF FloatLt(t, T_VG20) THEN "VG-20"
    ELSE IF FloatLt(t, T_VG30) THEN "VG-30"
    ELSE IF FloatGt(t, T_VG30) THEN "VG-40"
    ELSE "VG-50"

----------------------------------------------------------------------------
(* get_vg_grade_color *)

\* the dict literal `colors`
colors ==
    [g \in Grades |->
        CASE g = "VG-10" -> "#1f77b4"
          [] g = "VG-20" -> "#ff7f0e"
          [] g = "VG-30" -> "#2ca02c"
          [] g = "VG-40" -> "#d62728"
          [] g = "VG-50" -> "#9467bd"]

\* mutant: colors[vg_grade] instead of colors.get(vg_grade, default)
get_vg_grade_color_index(g) ==
    IF g \in DOMAIN colors THEN colors[g] ELSE "KeyError"

get_vg_grade_color(g) ==
    IF g \in DOMAIN colors THEN colors[g] ELSE "#7f7f7f"

----------------------------------------------------------------------------
(* Calls of the two pure functions on enumerated arguments *)

NoValue == "<none>"
Unbound == [kind |-> "unbound", milli |-> 0]

TempInputs ==
    {Real(m) : m \in (0 - MaxDeg * Scale) .. (MaxDeg * Scale)} \cup {NaN, PosInf, NegInf}

\* the five grade labels and strings that are not keys of the table
LabelInputs ==
    Grades \cup {"", "unknown", "vg-10", "VG-60", "VG-10 ", "VG10", "#1f77b4"}

InitApp ==
    /\ folder_path = ""
    /\ sidebar = "none"
    /\ viz = "not_run"
    /\ reads = << >>
    /\ selected_highway = NoValue
    /\ segments_df = << >>

InitFn ==
    /\ call \in {"determine_vg_grade", "get_vg_grade_color"}
    /\ ret = NoValue
    /\ IF call = "determine_vg_grade"
       THEN mean_temp \in TempInputs /\ vg_grade = NoValue
       ELSE mean_temp = Unbound /\ vg_grade \in LabelInputs
    /\ InitApp

CallDetermine ==
    /\ call = "determine_vg_grade"
    /\ ret = NoValue
    /\ ret' = determine_vg_grade(mean_temp)
    /\ UNCHANGED <<call, mean_temp, vg_grade>>
    /\ UNCHANGED appvars

CallColor ==
    /\ call = "get_vg_grade_color"
    /\ ret = NoValue
    /\ ret' = get_vg_grade_color(vg_grade)
    /\ UNCHANGED <<call, mean_temp, vg_grade>>
    /\ UNCHANGED appvars

NextFn == CallDetermine \/ CallColor

SpecFn == InitFn /\ [][NextFn]_vars

Returned(f) == call = f /\ ret # NoValue

----------------------------------------------------------------------------
(* The file system that main and visualize_highway_chainage read *)

CP_SUFFIX == "_change_points_coordinates.csv"
SEG_SUFFIX == "_segments_chainage.csv"

\* a file name, split at the place where the code's endswith/replace split it
File(stem, suffix) == [stem |-> stem, suffix |-> suffix]

\* the directories that exist, with their entries
Dirs ==
    [d \in {"empty_dir", "no_segments", "highways"} |->
        CASE d = "empty_dir" -> {}
          [] d = "no_segments" -> {File("NH44", CP_SUFFIX), File("readme", ".txt")}
          [] d = "highways" -> {File("NH44", CP_SUFFIX), File("NH44", SEG_SUFFIX),
                                File("NH48", CP_SUFFIX), File("NH48", SEG_SUFFIX)}]

\* paths that exist and are not directories
PlainFiles == {"notes.txt"}

\* what the user can type into the text input
Paths == {"", " ", "missing_dir"} \cup PlainFiles \cup DOMAIN Dirs

\* os.path.exists
exists(p) == p \in PlainFiles \/ p \in DOMAIN Dirs

\* the mean_temp values a segments file can hold: the neighbourhood of each
\* threshold, and NaN for an empty cell
RowTemps ==
    {Real(T_VG10 * Scale - 1), Real(T_VG10 * Scale), Real(T_VG20 * Scale),
     Real(T_VG30 * Scale - 1), Real(T_VG30 * Scale), Real(T_VG30 * Scale + 1), NaN}

\* pd.read_csv of a segments file: rows in file order (start_km and end_km are
\* not read by the augmentation and are left out)
SegmentTables ==
    UNION {[1..n -> [mean_temp : RowTemps]] : n \in 0..MaxRows}

----------------------------------------------------------------------------
(* visualize_highway_chainage: the augmentation of the segments table *)

\* mutant: a classifier that remembers the hottest row seen so far
AddGradesRunningMax(df) ==
    [i \in 1..Len(df) |->
        [mean_temp |-> df[i].mean_temp,
         vg_grade |->
            IF \E j \in 1..i : determine_vg_grade(df[j].mean_temp) = "VG-40"
            THEN "VG-40"
            ELSE determine_vg_grade(df[i].mean_temp)]]

\* segments_df['vg_grade'] = segments_df['mean_temp'].apply(determine_vg_grade)
AddGrades(df) ==
    [i \in 1..Len(df) |->
        [mean_temp |-> df[i].mean_temp,
         vg_grade |-> determine_vg_grade(df[i].mean_temp)]]

\* mutant: the colorizer applied to the column's name instead of its values
AddColorsOfName(df) ==
    [i \in 1..Len(df) |->
        [mean_temp |-> df[i].mean_temp,
         vg_grade |-> df[i].vg_grade,
         color |-> get_vg_grade_color("vg_grade")]]

\* segments_df['color'] = segments_df['vg_grade'].apply(get_vg_grade_color)
AddColors(df) ==
    [i \in 1..Len(df) |->
        [mean_temp |-> df[i].mean_temp,
         vg_grade |-> df[i].vg_grade,
         color |-> get_vg_grade_color(df[i].vg_grade)]]

\* the body of visualize_highway_chainage(p), up to the table it renders;
\* sel is the entry chosen in the selectbox, df the contents of the segments file
Visualize(p, sel, df) ==
    IF p \notin DOMAIN Dirs
    THEN \* os.listdir raises NotADirectoryError
         /\ viz' = "raised"
         /\ selected_highway' = NoValue
         /\ reads' = << >>
         /\ segments_df' = << >>
    ELSE LET change_point_files == {f \in Dirs[p] : f.suffix = CP_SUFFIX}
             options == {f.stem : f \in change_point_files}
             change_points_file == File(sel, CP_SUFFIX)
             segments_file == File(sel, SEG_SUFFIX)
         IN  /\ IF options = {} THEN sel = "None" ELSE sel \in options
             /\ selected_highway' = sel
             /\ IF change_points_file \notin Dirs[p]
                THEN \* the first read_csv raises FileNotFoundError
                     /\ viz' = "raised"
                     /\ reads' = <<change_points_file>>
                     /\ segments_df' = << >>
                ELSE IF segments_file \notin Dirs[p]
                THEN \* the second read_csv raises FileNotFoundError
                     /\ viz' = "raised"
                     /\ reads' = <<change_points_file, segments_file>>
                     /\ segments_df' = << >>
                ELSE /\ viz' = "rendered"
                     /\ reads' = <<change_points_file, segments_file>>
                     /\ segments_df' = AddColors(AddGrades(df))

----------------------------------------------------------------------------
(* main: one run of the script for the text the user entered *)

\* mutant: the os.path.exists test forgotten
ShouldVisualizeNoExists(p) == p # ""

\* `if folder_path and os.path.exists(folder_path)`
ShouldVisualize(p) == p # "" /\ exists(p)

Stems == {"None"} \cup UNION {{f.stem : f \in Dirs[d]} : d \in DOMAIN Dirs}

MainVisualize ==
    \E p \in Paths, sel \in Stems, df \in SegmentTables :
        /\ ShouldVisualize(p)
        /\ folder_path' = p
        /\ sidebar' = "none"
        /\ Visualize(p, sel, df)
        /\ UNCHANGED fnvars

MainInvalid ==
    \E p \in Paths :
        /\ ~ShouldVisualize(p)
        /\ p # ""
        /\ folder_path' = p
        /\ sidebar' = "error"
        /\ viz' = "not_run"
        /\ reads' = << >>
        /\ selected_highway' = NoValue
        /\ segments_df' = << >>
        /\ UNCHANGED fnvars

MainEmpty ==
    \E p \in Paths :
        /\ ~ShouldVisualize(p)
        /\ p = ""
        /\ folder_path' = p
        /\ sidebar' = "info"
        /\ viz' = "not_run"
        /\ reads' = << >>
        /\ selected_highway' = NoValue
        /\ segments_df' = << >>
        /\ UNCHANGED fnvars

Init ==
    /\ call = "none"
    /\ mean_temp = Unbound
    /\ vg_grade = NoValue
    /\ ret = NoValue
    /\ InitApp

Next == MainVisualize \/ MainInvalid \/ MainEmpty

Spec == Init /\ [][Next]_vars

----------------------------------------------------------------------------
(* Properties of the two functions, checked under SpecFn *)

\* C1: every real temperature above 45 degrees is graded VG-40
C1_Above45IsVG40 ==
    (Returned("determine_vg_grade") /\ IsReal(mean_temp) /\ mean_temp.milli > 45 * Scale)
        => ret = "VG-40"

C1_Witness ==
    /\ Returned("determine_vg_grade")
    /\ mean_temp = Real(45 * Scale + 1)
    /\ ret = "VG-40"

\* C2: a real temperature is graded VG-50 if and only if it is exactly 45 degrees
C2_VG50IffExactly45 ==
    (Returned("determine_vg_grade") /\ IsReal(mean_temp))
        => (ret = "VG-50" <=> mean_temp.milli = 45 * Scale)

C2_Witness ==
    /\ Returned("determine_vg_grade")
    /\ mean_temp = Real(45 * Scale)
    /\ ret = "VG-50"

\* C3: every real temperature t with 38 <= t < 45 is graded VG-30
C3_From38Below45IsVG30 ==
    (/\ Returned("determine_vg_grade")
     /\ IsReal(mean_temp)
     /\ 38 * Scale <= mean_temp.milli
     /\ mean_temp.milli < 45 * Scale)
        => ret = "VG-30"

C3_Witness ==
    /\ Returned("determine_vg_grade")
    /\ mean_temp = Real(45 * Scale - 1)
    /\ ret = "VG-30"

\* C4: every real temperature t with 30 <= t < 38 is graded VG-20,
\* so that exactly 30 degrees is VG-20 and not VG-10
C4_From30Below38IsVG20 ==
    (/\ Returned("determine_vg_grade")
     /\ IsReal(mean_temp)
     /\ 30 * Scale <= mean_temp.milli
     /\ mean_temp.milli < 38 * Scale)
        => ret = "VG-20"

C4_Witness ==
    /\ Returned("determine_vg_grade")
    /\ mean_temp = Real(30 * Scale)
    /\ ret = "VG-20"

\* C5: every real temperature below 30 degrees, zero and the negative ones
\* included, is graded VG-10
C5_Below30IsVG10 ==
    (Returned("determine_vg_grade") /\ IsReal(mean_temp) /\ mean_temp.milli < 30 * Scale)
        => ret = "VG-10"

C5_Witness ==
    /\ Returned("determine_vg_grade")
    /\ mean_temp = Real(0 - Scale)
    /\ ret = "VG-10"

\* C6: get_vg_grade_color returns the table's color for each of the five grades
\* and the default gray for every other string, and never raises
C6_ColorTableOrGray ==
    Returned("get_vg_grade_color") =>
        ret = CASE vg_grade = "VG-10" -> "#1f77b4"
                [] vg_grade = "VG-20" -> "#ff7f0e"
                [] vg_grade = "VG-30" -> "#2ca02c"
                [] vg_grade = "VG-40" -> "#d62728"
                [] vg_grade = "VG-50" -> "#9467bd"
                [] OTHER -> "#7f7f7f"

C6_Witness ==
    /\ Returned("get_vg_grade_color")
    /\ vg_grade = "unknown"
    /\ ret = "#7f7f7f"

----------------------------------------------------------------------------
(* Properties of the table augmentation and of main, checked under Spec *)

Rows(df) == DOMAIN df

\* the step of C7: every segment of a rendered table has exactly one grade of
\* the closed set, and the grade depends on the segment's own mean_temp only: equal
\* temperatures get equal grades within a table and across two runs, whatever
\* the other rows and their order are
C7_StepGradeOfOwnTemp ==
    viz' = "rendered" =>
        /\ \A i \in Rows(segments_df') : segments_df'[i].vg_grade \in Grades
        /\ \A i, j \in Rows(segments_df') :
              segments_df'[i].mean_temp = segments_df'[j].mean_temp
                  => segments_df'[i].vg_grade = segments_df'[j].vg_grade
        /\ \A i \in Rows(segments_df'), j \in Rows(segments_df) :
              segments_df'[i].mean_temp = segments_df[j].mean_temp
                  => segments_df'[i].vg_grade = segments_df[j].vg_grade

\* C7: every run of main leaves each segment with one grade of the closed set
\* that is a function of the segment's own mean_temp only
C7_GradeOfOwnTempOnly == [][C7_StepGradeOfOwnTemp]_vars

C7_Witness ==
    /\ viz = "rendered"
    /\ Len(segments_df) = 2
    /\ segments_df[1].mean_temp = Real(45 * Scale - 1)
    /\ segments_df[2].mean_temp = Real(45 * Scale + 1)
    /\ segments_df[1].vg_grade = "VG-30"
    /\ segments_df[2].vg_grade = "VG-40"

\* the order VG-10 < VG-20 < VG-30 < VG-40 < VG-50
Rank(g) ==
    CASE g = "VG-10" -> 1
      [] g = "VG-20" -> 2
      [] g = "VG-30" -> 3
      [] g = "VG-40" -> 4
      [] g = "VG-50" -> 5

\* C8: the grades are monotone in the temperature: of two real temperatures
\* t1 <= t2 the grade of t1 is at most the grade of t2
C8_GradeMonotone ==
    viz = "rendered" =>
        \A i, j \in Rows(segments_df) :
            (/\ IsReal(segments_df[i].mean_temp)
             /\ IsReal(segments_df[j].mean_temp)
             /\ segments_df[i].mean_temp.milli <= segments_df[j].mean_temp.milli)
                => Rank(segments_df[i].vg_grade) <= Rank(segments_df[j].vg_grade)

\* the step of C9: a run of main ends in exactly one of three outcomes: the visualization
\* ran, only for a non-empty path that exists; the error was shown, for a
\* non-empty path that does not exist, with no visualization and no file read;
\* the prompt alone was shown, for the empty path
C9_StepOutcome ==
    LET ran == viz' # "not_run"
        err == sidebar' = "error"
        info == sidebar' = "info"
        loaded == viz' # "not_run" \/ reads' # << >> \/ segments_df' # << >>
    IN  /\ (ran /\ ~err /\ ~info) \/ (~ran /\ err /\ ~info) \/ (~ran /\ ~err /\ info)
        /\ ran => (folder_path' # "" /\ exists(folder_path'))
        /\ (folder_path' # "" /\ ~exists(folder_path')) => (err /\ ~loaded)
        /\ folder_path' = "" => (info /\ ~loaded)

\* C9: every run of main ends in exactly one of the three outcomes
C9_ExactlyOneOutcome == [][C9_StepOutcome]_vars

C9_Witness ==
    /\ folder_path = "missing_dir"
    /\ sidebar = "error"
    /\ viz = "not_run"

TableColors == {"#1f77b4", "#ff7f0e", "#2ca02c", "#d62728", "#9467bd"}

\* C10: in a rendered table every row with a real mean_temp has the color of
\* the grade of its temperature, which is one of the five table colors and
\* never the default gray; 45 degrees has VG-50 and #9467bd
C10_ColorOfGradeNeverGray ==
    viz = "rendered" =>
        \A i \in Rows(segments_df) :
            IsReal(segments_df[i].mean_temp) =>
                /\ segments_df[i].color =
                      get_vg_grade_color(determine_vg_grade(segments_df[i].mean_temp))
                /\ segments_df[i].color \in TableColors
                /\ segments_df[i].color # "#7f7f7f"
                /\ segments_df[i].mean_temp = Real(45 * Scale) =>
                      (segments_df[i].vg_grade = "VG-50" /\ segments_df[i].color = "#9467bd")

C10_Witness ==
    /\ viz = "rendered"
    /\ \E i \in Rows(segments_df) :
          /\ segments_df[i].mean_temp = Real(45 * Scale)
          /\ segments_df[i].vg_grade = "VG-50"
          /\ segments_df[i].color = "#9467bd"

====
